---------------------------- MODULE Spec2Model ----------------------------
(***************************************************************************)
(* The snake game of src/the_snake.py as a state machine.                  *)
(*                                                                         *)
(* The state is the Snake object's fields, the Apple object's position and *)
(* the position of main() in its loop.  One action is one statement group  *)
(* of main(): constructing the apple, handling one polled event, move(),   *)
(* the apple check and the self-collision check.                           *)
(***************************************************************************)
EXTENDS Integers, Sequences, FiniteSets

(***************************************************************************)
(* Constants of the program (the_snake.py lines 6-15).                     *)
(***************************************************************************)
SCREEN_WIDTH == 640
SCREEN_HEIGHT == 480
GRID_SIZE == 20
GRID_WIDTH == SCREEN_WIDTH \div GRID_SIZE
GRID_HEIGHT == SCREEN_HEIGHT \div GRID_SIZE

UP == <<0, -1>>
DOWN == <<0, 1>>
LEFT == <<-1, 0>>
RIGHT == <<1, 0>>

\* Python's None; the empty tuple is falsy like None and differs from
\* every cell and every direction.
None == <<>>

(***************************************************************************)
(* Bounds of the model.                                                    *)
(***************************************************************************)
\* randint(lo, hi) is explored on lo, on hi and on the values less than
\* MaxSpread away from the middle of lo..hi.
MaxSpread == 1
\* Longest position list drawn for a snake in the middle of a game.
MaxLen == 5

VARIABLES
    positions,       \* snake.positions: list of cells, head first
    length,          \* snake.length
    direction,       \* snake.direction
    next_direction,  \* snake.next_direction (None when nothing is pending)
    last,            \* snake.last (None, or the cell popped by move())
    apple,           \* apple.position (None before the Apple is constructed)
    pc,              \* the statement of main() that runs next
    log,             \* history of the current tick: what has been done in it
    accepted         \* history of the current tick: the last arrow key polled
                     \* that did not ask for the opposite of the snake's
                     \* direction, as a direction (None when there was none)

vars ==
    <<positions, length, direction, next_direction, last, apple, pc, log,
      accepted>>

snake_vars == <<positions, length, direction, next_direction, last>>

(***************************************************************************)
(* Helpers.                                                                *)
(***************************************************************************)
\* GameObject.__init__: every game object starts at the screen centre;
\* the snake never reassigns self.position.
position == <<SCREEN_WIDTH \div 2, SCREEN_HEIGHT \div 2>>

\* The direction opposite to d, by negating the vector.
Opposite(d) == <<0 - d[1], 0 - d[2]>>

Directions == {UP, DOWN, LEFT, RIGHT}

\* The events pygame.event.get() can return, by what handle_keys does with
\* them: QUIT, KEYDOWN of an arrow key, KEYDOWN of any other key (escape),
\* and any other event type.
Events == {"QUIT", "K_UP", "K_DOWN", "K_LEFT", "K_RIGHT", "K_ESCAPE", "OTHER"}

\* The direction an arrow key asks for.
KeyDirection(ev) ==
    CASE ev = "K_UP" -> UP
      [] ev = "K_DOWN" -> DOWN
      [] ev = "K_LEFT" -> LEFT
      [] ev = "K_RIGHT" -> RIGHT
      [] OTHER -> None

Cells(ps) == {ps[i] : i \in 1..Len(ps)}

Abs(n) == IF n < 0 THEN 0 - n ELSE n

\* The outcomes of randint(lo, hi) the model explores.
randint(lo, hi) ==
    {v \in lo..hi : v = lo \/ v = hi \/ Abs(v - ((lo + hi + 1) \div 2)) < MaxSpread}

(***************************************************************************)
(* Snake.                                                                  *)
(***************************************************************************)
\* Snake.__init__: the fields of a newly constructed snake, in the order
\* of snake_vars.
Snake__init__ == <<(<<position>>), 1, RIGHT, None, None>>

get_head_position == positions[1]

\* Snake.handle_wrapping(step)
handle_wrapping(step) ==
    LET x == step[1]
        y == step[2]
        wx == IF x >= SCREEN_WIDTH THEN 0
              ELSE IF x < 0 THEN SCREEN_WIDTH ELSE x
        wy == IF y >= SCREEN_HEIGHT THEN 0
              ELSE IF y < 0 THEN SCREEN_HEIGHT ELSE y
    IN  <<wx, wy>>

\* Snake.update_direction(): the direction after the pending one is applied.
update_direction ==
    IF next_direction # None THEN next_direction ELSE direction

\* move() trimming one cell too late.
move_trims_late ==
    LET d == update_direction
        start == get_head_position
        step == <<start[1] + d[1] * GRID_SIZE, start[2] + d[2] * GRID_SIZE>>
        grown == <<handle_wrapping(step)>> \o positions
    IN  /\ direction' = d
        /\ next_direction' = None
        /\ IF Len(grown) > length + 1
           THEN /\ last' = grown[Len(grown)]
                /\ positions' = SubSeq(grown, 1, Len(grown) - 1)
           ELSE /\ last' = last
                /\ positions' = grown
        /\ length' = length

\* move() that leaves the direction out of the step.
move_stays ==
    LET d == update_direction
        start == get_head_position
        step == start
        grown == <<handle_wrapping(step)>> \o positions
    IN  /\ direction' = d
        /\ next_direction' = None
        /\ IF Len(grown) > length
           THEN /\ last' = grown[Len(grown)]
                /\ positions' = SubSeq(grown, 1, Len(grown) - 1)
           ELSE /\ last' = last
                /\ positions' = grown
        /\ length' = length

\* move() that pops the tail without recording it.
move_forgets_last ==
    LET d == update_direction
        start == get_head_position
        step == <<start[1] + d[1] * GRID_SIZE, start[2] + d[2] * GRID_SIZE>>
        grown == <<handle_wrapping(step)>> \o positions
    IN  /\ direction' = d
        /\ next_direction' = None
        /\ IF Len(grown) > length
           THEN /\ last' = last
                /\ positions' = SubSeq(grown, 1, Len(grown) - 1)
           ELSE /\ last' = last
                /\ positions' = grown
        /\ length' = length

\* move() that records the new tail instead of the popped cell.
move_records_new_tail ==
    LET d == update_direction
        start == get_head_position
        step == <<start[1] + d[1] * GRID_SIZE, start[2] + d[2] * GRID_SIZE>>
        grown == <<handle_wrapping(step)>> \o positions
    IN  /\ direction' = d
        /\ next_direction' = None
        /\ IF Len(grown) > length
           THEN /\ last' = grown[Len(grown) - 1]
                /\ positions' = SubSeq(grown, 1, Len(grown) - 1)
           ELSE /\ last' = last
                /\ positions' = grown
        /\ length' = length

\* Snake.move()
move ==
    LET d == update_direction
        start == get_head_position
        step == <<start[1] + d[1] * GRID_SIZE, start[2] + d[2] * GRID_SIZE>>
        grown == <<handle_wrapping(step)>> \o positions
    IN  /\ direction' = d
        /\ next_direction' = None
        /\ IF Len(grown) > length
           THEN /\ last' = grown[Len(grown)]
                /\ positions' = SubSeq(grown, 1, Len(grown) - 1)
           ELSE /\ last' = last
                /\ positions' = grown
        /\ length' = length

\* reset() that forgets the direction and the popped cell.
reset_keeps_heading ==
    /\ length' = 1
    /\ next_direction' = None
    /\ positions' = <<position>>
    /\ UNCHANGED <<direction, last>>

\* Snake.reset()
reset ==
    /\ length' = 1
    /\ direction' = RIGHT
    /\ next_direction' = None
    /\ positions' = <<position>>
    /\ last' = None

\* is_collision() scanning positions[2:-1]: the tail cell is left out.
is_collision_skips_tail ==
    \E i \in 3..(Len(positions) - 1) : positions[i] = get_head_position

\* is_collision() scanning positions[1:]: the neck is not skipped.
is_collision_from_neck ==
    \E i \in 2..Len(positions) : positions[i] = get_head_position

\* Snake.is_collision()
is_collision ==
    \E i \in 3..Len(positions) : positions[i] = get_head_position

(***************************************************************************)
(* handle_keys: the effect of one polled event on next_direction.          *)
(***************************************************************************)
\* handle_keys without the checks against the current direction.
handle_key_unguarded(ev) ==
    IF KeyDirection(ev) # None THEN KeyDirection(ev) ELSE next_direction

\* handle_keys keeping the first pending direction of the tick.
handle_key_first_wins(ev) ==
    IF next_direction # None THEN next_direction
    ELSE IF ev = "K_UP" /\ direction # DOWN THEN UP
    ELSE IF ev = "K_DOWN" /\ direction # UP THEN DOWN
    ELSE IF ev = "K_LEFT" /\ direction # RIGHT THEN LEFT
    ELSE IF ev = "K_RIGHT" /\ direction # LEFT THEN RIGHT
    ELSE next_direction

handle_key(ev) ==
    IF ev = "K_UP" /\ direction # DOWN THEN UP
    ELSE IF ev = "K_DOWN" /\ direction # UP THEN DOWN
    ELSE IF ev = "K_LEFT" /\ direction # RIGHT THEN LEFT
    ELSE IF ev = "K_RIGHT" /\ direction # LEFT THEN RIGHT
    ELSE next_direction

(***************************************************************************)
(* Apple.                                                                  *)
(***************************************************************************)
\* randomize_position() drawing up to GRID_WIDTH and GRID_HEIGHT inclusive.
randomize_position_to_edge ==
    LET max_x == GRID_WIDTH
        max_y == GRID_HEIGHT
    IN  {<<x * GRID_SIZE, y * GRID_SIZE>> :
            x \in randint(0, max_x), y \in randint(0, max_y)}

\* Apple.randomize_position(): the cells it can assign.
randomize_position ==
    LET max_x == GRID_WIDTH - 1
        max_y == GRID_HEIGHT - 1
    IN  {<<x * GRID_SIZE, y * GRID_SIZE>> :
            x \in randint(0, max_x), y \in randint(0, max_y)}

(***************************************************************************)
(* main().                                                                 *)
(***************************************************************************)
\* After snake = Snake() (line 279), before apple = Apple() (line 280).
Init ==
    /\ positions = Snake__init__[1]
    /\ length = Snake__init__[2]
    /\ direction = Snake__init__[3]
    /\ next_direction = Snake__init__[4]
    /\ last = Snake__init__[5]
    /\ apple = None
    /\ pc = "new_apple"
    /\ log = {}
    /\ accepted = None

\* apple = Apple(): the constructor calls randomize_position().
NewApple ==
    /\ pc = "new_apple"
    /\ apple' \in randomize_position
    /\ pc' = "handle_keys"
    /\ UNCHANGED <<snake_vars, log, accepted>>

\* What polling ev adds to the history of the tick.
Polled(ev) ==
    CASE ev = "QUIT" -> {"quit"}
      [] ev = "K_ESCAPE" -> {"escape"}
      [] KeyDirection(ev) = Opposite(direction) -> {"refused"}
      [] OTHER -> {}

\* The last accepted arrow key of the tick once ev is polled.
Accepted(ev) ==
    IF KeyDirection(ev) # None /\ KeyDirection(ev) # Opposite(direction)
    THEN KeyDirection(ev) ELSE accepted

\* handle_keys turning the snake at once instead of at the next move().
HandleEvent_immediate(ev) ==
    /\ pc = "handle_keys"
    /\ IF ev = "QUIT"
       THEN /\ pc' = "SystemExit"
            /\ UNCHANGED <<direction, next_direction, accepted>>
       ELSE /\ pc' = pc
            /\ next_direction' = handle_key(ev)
            /\ direction' = IF handle_key(ev) # None
                            THEN handle_key(ev) ELSE direction
            /\ accepted' = Accepted(ev)
    /\ log' = log \cup Polled(ev)
    /\ UNCHANGED <<positions, length, last, apple>>

\* handle_keys leaving the loop on escape as on QUIT.
HandleEvent_escape_quits(ev) ==
    /\ pc = "handle_keys"
    /\ IF ev \in {"QUIT", "K_ESCAPE"}
       THEN /\ pc' = "SystemExit"
            /\ UNCHANGED <<next_direction, accepted>>
       ELSE /\ pc' = pc
            /\ next_direction' = handle_key(ev)
            /\ accepted' = Accepted(ev)
    /\ log' = log \cup Polled(ev)
    /\ UNCHANGED <<positions, length, direction, last, apple>>

\* handle_keys that does not raise SystemExit on QUIT.
HandleEvent_quit_ignored(ev) ==
    /\ pc = "handle_keys"
    /\ pc' = pc
    /\ next_direction' = handle_key(ev)
    /\ accepted' = Accepted(ev)
    /\ log' = log \cup Polled(ev)
    /\ UNCHANGED <<positions, length, direction, last, apple>>

\* One iteration of the for loop of handle_keys(snake).
HandleEvent(ev) ==
    /\ pc = "handle_keys"
    /\ IF ev = "QUIT"
       THEN /\ pc' = "SystemExit"
            /\ UNCHANGED <<next_direction, accepted>>
       ELSE /\ pc' = pc
            /\ next_direction' = handle_key(ev)
            /\ accepted' = Accepted(ev)
    /\ log' = log \cup Polled(ev)
    /\ UNCHANGED <<positions, length, direction, last, apple>>

HandleKeys == \E ev \in Events : HandleEvent(ev)

\* A loop that goes on to the checks without calling snake.move().
Move_skipped ==
    /\ pc = "handle_keys"
    /\ pc' = "eat"
    /\ UNCHANGED <<snake_vars, apple, log, accepted>>

\* The event list is exhausted: apple.draw(), snake.draw(), snake.move().
Move ==
    /\ pc = "handle_keys"
    /\ move
    /\ pc' = "eat"
    /\ log' = log \cup {"moved"}
    /\ UNCHANGED <<apple, accepted>>

\* Lines 292-295.  randomize_position takes no argument besides self, so
\* the call of line 295 raises TypeError after lines 293-294 have run.
Eat ==
    /\ pc = "eat"
    /\ IF apple = get_head_position
       THEN /\ length' = length + 1
            /\ positions' = Append(positions, positions[Len(positions)])
            /\ pc' = "TypeError"
       ELSE /\ pc' = "collide"
            /\ UNCHANGED <<length, positions>>
    /\ UNCHANGED <<direction, next_direction, last, apple, log, accepted>>

\* Lines 298-301: the tick ends and the loop starts over.
Collide ==
    /\ pc = "collide"
    /\ IF is_collision THEN reset ELSE UNCHANGED snake_vars
    /\ pc' = "handle_keys"
    /\ log' = {}
    /\ accepted' = None
    /\ UNCHANGED apple

Next == NewApple \/ HandleKeys \/ Move \/ Eat \/ Collide

Spec == Init /\ [][Next]_vars

(***************************************************************************)
(* The rest of a tick from the middle of a game: any snake of up to MaxLen *)
(* cells right after snake.move() (line 290), then lines 292-301.          *)
(***************************************************************************)
\* A block of 3 x 2 cells with the screen centre at its corner: a snake can
\* circle in it on the centre cell and beside it.
MidCells ==
    {<<x * GRID_SIZE, y * GRID_SIZE>> :
        x \in (GRID_WIDTH \div 2)..(GRID_WIDTH \div 2 + 2),
        y \in (GRID_HEIGHT \div 2)..(GRID_HEIGHT \div 2 + 1)}

\* Cells one step apart.
Adjacent(a, b) == Abs(a[1] - b[1]) + Abs(a[2] - b[2]) = GRID_SIZE

\* The position lists move() leaves behind: each cell one step from the
\* next, the body behind the head without a repeated cell, and the head
\* not back on the cell before the neck (no reversal).
MidPositions ==
    {ps \in UNION {[1..n -> MidCells] : n \in 1..MaxLen} :
        /\ \A i \in 1..(Len(ps) - 1) : Adjacent(ps[i], ps[i + 1])
        /\ \A i, j \in 2..Len(ps) : ps[i] = ps[j] => i = j
        /\ Len(ps) >= 3 => ps[1] # ps[3]}

\* move() has just run: nothing is pending, the list is as long as length,
\* the head lies one step ahead of the neck in the current direction, and
\* a cell was popped: a cell next to the tail, or a copy of the tail left
\* by growth.  The apple is not under the body behind the head: the head
\* takes it on arrival.
InitAfterMove ==
    /\ positions \in MidPositions
    /\ length = Len(positions)
    /\ direction \in Directions
    /\ Len(positions) >= 2 =>
            direction = <<(positions[1][1] - positions[2][1]) \div GRID_SIZE,
                          (positions[1][2] - positions[2][2]) \div GRID_SIZE>>
    /\ next_direction = None
    /\ last \in MidCells
    /\ \/ Adjacent(last, positions[Len(positions)])
       \/ Len(positions) >= 2 /\ last = positions[Len(positions)]
    /\ apple \in MidCells \ Cells(Tail(positions))
    /\ pc = "eat"
    /\ log = {"moved"}
    /\ accepted = None

NextAfterMove == Eat \/ Collide

SpecAfterMove == InitAfterMove /\ [][NextAfterMove]_vars

(***************************************************************************)
(* The start of a tick from the middle of a game: any snake of up to       *)
(* MaxLen cells when handle_keys is called (line 285), then the events,    *)
(* snake.move() and the apple check (lines 285-295).                       *)
(***************************************************************************)
\* The last tick ended without growth and without a reset: the snake is as
\* move() left it, its head neither on the apple nor on its body.
InitTick ==
    /\ positions \in MidPositions
    /\ \A i \in 3..Len(positions) : positions[i] # positions[1]
    /\ length = Len(positions)
    /\ direction \in Directions
    /\ Len(positions) >= 2 =>
            direction = <<(positions[1][1] - positions[2][1]) \div GRID_SIZE,
                          (positions[1][2] - positions[2][2]) \div GRID_SIZE>>
    /\ next_direction = None
    /\ last \in MidCells
    /\ \/ Adjacent(last, positions[Len(positions)])
       \/ Len(positions) >= 2 /\ last = positions[Len(positions)]
    /\ apple \in MidCells \ Cells(positions)
    /\ pc = "handle_keys"
    /\ log = {}
    /\ accepted = None

NextTick == HandleKeys \/ Move \/ Eat

SpecTick == InitTick /\ [][NextTick]_vars

(***************************************************************************)
(* What the claims speak of.                                               *)
(***************************************************************************)
\* A step that applies snake.move().
MoveStep == "moved" \notin log /\ "moved" \in log'

\* A step that runs lines 292-295 with the head on the apple.
EatStep == pc = "eat" /\ apple = positions[1] /\ pc' # pc

\* The head cell equals a cell at index 2 or later (counting from 0).
HeadHitsBody == \E i \in 3..Len(positions) : positions[i] = positions[1]

\* An on-screen grid cell.
OnScreen(c) ==
    /\ c[1] \in 0..(SCREEN_WIDTH - 1)
    /\ c[2] \in 0..(SCREEN_HEIGHT - 1)
    /\ c[1] % GRID_SIZE = 0
    /\ c[2] % GRID_SIZE = 0

\* C1: a move never turns the snake into the opposite of the direction it
\* had before the move; when the only arrow keys polled in the tick were
\* refused ones, the direction after the move is the one before it.
C1_NoReversal ==
    [][MoveStep =>
        /\ direction' # Opposite(direction)
        /\ ("refused" \in log /\ next_direction = None) => direction' = direction]_vars

\* C1: a move has been applied in a tick in which the key opposite to the
\* snake's direction was polled, after the snake had turned upwards.
C1_Witness ==
    /\ pc = "eat"
    /\ "refused" \in log
    /\ direction = UP

\* C2: every cell of snake.positions is an on-screen grid cell.
C2_CellsOnScreen ==
    \A i \in 1..Len(positions) : OnScreen(positions[i])

\* C3: from an on-screen head (x, y), move() puts the new head at
\* ((x + dx*GRID_SIZE + SCREEN_WIDTH) % SCREEN_WIDTH,
\*  (y + dy*GRID_SIZE + SCREEN_HEIGHT) % SCREEN_HEIGHT).
C3_WrapFormula ==
    [][(MoveStep /\ OnScreen(positions[1])) =>
        positions'[1] =
            <<(positions[1][1] + direction'[1] * GRID_SIZE + SCREEN_WIDTH)
                  % SCREEN_WIDTH,
              (positions[1][2] + direction'[2] * GRID_SIZE + SCREEN_HEIGHT)
                  % SCREEN_HEIGHT>>]_vars

\* C4: whenever the apple is given a position, the cell is not one of
\* snake.positions.
C4_AppleOffSnake ==
    [][apple' # apple => apple' \notin Cells(positions')]_vars

\* C5: when the head is on the apple, length and the number of cells each
\* grow by exactly one, and the game goes on so that later moves keep
\* that number.
C5_GrowthLasts ==
    [][EatStep =>
        /\ length' = length + 1
        /\ Len(positions') = Len(positions) + 1
        /\ pc' # "TypeError"]_vars

\* C6: at the end of every tick len(snake.positions) == snake.length.
C6_LenIsLength ==
    (pc = "handle_keys") => (Len(positions) = length)

\* C6: a tick that moved the snake has ended.
C6_Witness ==
    /\ pc = "handle_keys"
    /\ last # None
    /\ Len(positions) = length

\* C7: a tick in which the head is on the apple completes: the snake
\* grows, the apple gets a new position and the loop goes on.
C7_EatCompletes ==
    [][EatStep =>
        /\ pc' = "collide"
        /\ length' = length + 1
        /\ apple' # apple]_vars

\* C8: when the head equals a cell at index 2 or later after a move, the
\* collision check of that tick resets the snake; at the end of every tick
\* no cell at index 2 or later equals the head.
C8_CollisionResets ==
    [][/\ (pc = "collide" /\ HeadHitsBody) =>
            (pc' = "handle_keys" /\ positions' = <<position>> /\ length' = 1)
       /\ (pc' = "handle_keys") => ~HeadHitsBody']_vars

\* C8: the collision check has run on a snake whose head was on a body
\* cell (after a move only reset() clears last) and the tick has ended with
\* no collision left.
C8_Witness ==
    /\ pc = "handle_keys"
    /\ last = None
    /\ length = 1
    /\ ~HeadHitsBody

\* C9: reset() leaves the snake in the state of a newly constructed one:
\* one cell at the screen centre, length 1, direction RIGHT, nothing
\* pending, last cleared.
C9_ResetIsInit ==
    [][(pc = "collide" /\ HeadHitsBody) => snake_vars' = Snake__init__]_vars

\* C9: the collision check has reset the snake (after a move only reset()
\* clears last): it is as constructed.
C9_Witness ==
    /\ pc = "handle_keys"
    /\ last = None
    /\ snake_vars = <<(<<(<<SCREEN_WIDTH \div 2, SCREEN_HEIGHT \div 2>>)>>),
                      1, RIGHT, None, None>>

\* C10 as claimed: the apple check and the collision check run on the
\* snake's state before move() is applied in the tick.
C10_ChecksBeforeMove ==
    (pc \in {"eat", "collide"}) => ("moved" \notin log)

\* C10 as amended: the apple check and the collision check run on the
\* snake's state after move() has been applied in the tick, and events are
\* polled before it: poll, move, apple check, collision check.
C10_ChecksAfterMove ==
    /\ (pc \in {"eat", "collide"}) => ("moved" \in log)
    /\ (pc = "handle_keys") => ("moved" \notin log)

\* C10: the collision check is about to run on a snake that has moved in
\* this tick.
C10_Witness ==
    /\ pc = "collide"
    /\ "moved" \in log
    /\ last # None

C13_QuitTerminates ==
    [][/\ ("quit" \in log') => (pc' = "SystemExit")
       /\ pc # "SystemExit"]_vars

\* C13: the quit event was polled in a tick after the first, behind an
\* arrow key that was accepted, and before that tick's move().
C13_Witness ==
    /\ pc = "SystemExit"
    /\ "quit" \in log
    /\ "moved" \notin log
    /\ next_direction # None
    /\ last # None

\* C14: the direction after a move is the last arrow key polled in the tick
\* that did not ask for the opposite of the direction the snake had while
\* polling; with no such key the direction is unchanged.
C14_LastAcceptedWins ==
    [][MoveStep =>
        direction' = IF accepted # None THEN accepted ELSE direction]_vars

\* C14: move() has turned the snake downwards in a tick in which an arrow
\* key was refused and the down key accepted.
C14_Witness ==
    /\ pc = "eat"
    /\ "refused" \in log
    /\ accepted = DOWN
    /\ direction = DOWN

\* C15: a snake of at most 2 cells is never in collision with itself.
C15_ShortSnakeNoCollision ==
    (Len(positions) <= 2) => ~is_collision

\* C15: a snake of 2 cells, the second on the head's cell, and no
\* collision.
C15_Witness ==
    /\ Len(positions) = 2
    /\ positions[2] = positions[1]
    /\ ~is_collision

\* C16 as claimed: whenever the snake has at least 2 cells, the cell at
\* index 1 differs from the head.
C16_NeckIsNotHead ==
    (Len(positions) >= 2) => (positions[2] # positions[1])

\* C16 as amended: whenever the snake has at least 2 cells, the cell at
\* index 1 differs from the head, except when a snake of one cell has just
\* eaten: lines 293-294 then leave two copies of the head cell, and the
\* loop ends there.
C16_NeckIsNotHeadUnlessGrownFromOne ==
    (Len(positions) >= 2 /\ positions[2] = positions[1]) =>
        (Len(positions) = 2 /\ pc = "TypeError")

\* C16: move() has been applied to a snake of at least 3 cells and its neck
\* differs from its head.
C16_Witness ==
    /\ pc = "eat"
    /\ "moved" \in log
    /\ Len(positions) >= 3
    /\ positions[2] # positions[1]

\* The first move of a game in which no key is pressed.
FirstMove ==
    /\ MoveStep
    /\ positions = <<(<<320, 240>>)>>
    /\ length = 1
    /\ direction = RIGHT
    /\ next_direction = None
    /\ last = None

\* C17 as claimed: the first move with no key pressed yields positions ==
\* [(340,240)] and leaves last none.
C17_FirstMoveLeavesLastNone ==
    [][FirstMove =>
        (positions' = <<(<<340, 240>>)>> /\ last' = None)]_vars

\* C17 as amended: the first move with no key pressed yields positions ==
\* [(340,240)] and records the cell it removed: last == (320,240).
C17_FirstMoveRecordsLast ==
    [][FirstMove =>
        (positions' = <<(<<340, 240>>)>> /\ last' = <<320, 240>>)]_vars

\* C17: the snake has made its move to (340,240) with no key polled in the
\* tick.
C17_Witness ==
    /\ pc = "eat"
    /\ log = {"moved"}
    /\ positions = <<(<<340, 240>>)>>
    /\ last = <<320, 240>>
    /\ direction = RIGHT

\* C18: for a snake with len(positions) == length, move() leaves the old
\* positions without their last cell behind the new head, and sets last to
\* the old tail cell.
C18_MoveShiftsBody ==
    [][(MoveStep /\ Len(positions) = length) =>
        /\ Len(positions') = Len(positions)
        /\ Tail(positions') = SubSeq(positions, 1, Len(positions) - 1)
        /\ positions'[1] # positions[1]
        /\ last' = positions[Len(positions)]]_vars

\* C18: move() has shifted a snake of 3 cells; the popped cell lies next to
\* the new tail.
C18_Witness ==
    /\ pc = "eat"
    /\ "moved" \in log
    /\ Len(positions) = 3
    /\ Adjacent(last, positions[3])

\* C19: polling events changes neither direction, positions, length, last
\* nor the apple: until move() is called only next_direction changes.
C19_PollingOnlySetsNextDirection ==
    [][(pc = "handle_keys" /\ ~MoveStep) =>
        UNCHANGED <<direction, positions, length, last, apple>>]_vars

\* C19: several arrow keys have been polled in a tick, one refused and one
\* accepted, and move() has not been called yet.
C19_Witness ==
    /\ pc = "handle_keys"
    /\ "moved" \notin log
    /\ "refused" \in log
    /\ accepted # None
    /\ next_direction = accepted
    /\ direction # accepted

\* c is a grid cell wholly on the screen.
AppleCell(c) ==
    /\ c[1] % GRID_SIZE = 0
    /\ c[2] % GRID_SIZE = 0
    /\ c[1] >= 0 /\ c[1] <= SCREEN_WIDTH - GRID_SIZE
    /\ c[2] >= 0 /\ c[2] <= SCREEN_HEIGHT - GRID_SIZE

\* C20: the apple is always on a grid cell of the screen, and its position
\* changes only in the step that eats it.
C20_AppleOnScreenAndStill ==
    [][/\ (apple' # None) => AppleCell(apple')
       /\ (apple # None /\ apple' # apple) => EatStep]_vars

\* C20: the apple lies on the last cell of the last row while the snake
\* moves.
C20_Witness ==
    /\ "moved" \in log
    /\ apple = <<SCREEN_WIDTH - GRID_SIZE, SCREEN_HEIGHT - GRID_SIZE>>

=============================================================================
